---- MODULE Spec2Model ----
(***************************************************************************)
(* Model of script.py: the customer-support chat loop that forwards each   *)
(* user line to a local model (ollama_generate), asks the same model for a *)
(* JSON record of the turn (extract_user_info, with its text repair        *)
(* pipeline) and inserts the record into the MySQL table user_info (main). *)
(*                                                                         *)
(* Text is a sequence of chunks.  A chunk is either one character that the *)
(* code treats specially ("{", "}", "[", "]", ",", ":", the double quote,  *)
(* one blank) or an atomic run of characters that no step of the code ever *)
(* splits: a word, the digits 12345, or the three backticks of a fence.    *)
(* No chunk is the concatenation of other chunks, so two texts are equal   *)
(* exactly when their chunk sequences are equal.                           *)
(***************************************************************************)
EXTENDS Integers, Sequences, FiniteSets

\* ------------------------------------------------------------------ bounds

\* Longest content, in chunks, of the string values the model may emit.
MaxStrLen == 2
\* Number of input lines read by one run of the loop.
MaxTurns == 2

\* ------------------------------------------------------------ text helpers

Q == "\""
\* The three backticks of a markdown fence (a backtick cannot be written in a
\* TLA+ string).
FENCE == "<fence>"
WS == {" "}
Digits == {"12345"}

\* str.lower(), chunk by chunk: only these chunks hold upper-case letters.
LowerChunk(c) ==
    CASE c = "Loan"  -> "loan"
      [] c = "Exit"  -> "exit"
      [] c = "QUIT"  -> "quit"
      [] c = "Al"    -> "al"
      [] c = "None"  -> "none"
      [] c = "True"  -> "true"
      [] c = "False" -> "false"
      [] OTHER       -> c

Lower(s) == [i \in 1..Len(s) |-> LowerChunk(s[i])]

RECURSIVE LStrip(_)
LStrip(s) == IF s # <<>> /\ Head(s) \in WS THEN LStrip(Tail(s)) ELSE s

RECURSIVE RStrip(_)
RStrip(s) ==
    IF s # <<>> /\ s[Len(s)] \in WS THEN RStrip(SubSeq(s, 1, Len(s) - 1)) ELSE s

\* str.strip()
Strip(s) == RStrip(LStrip(s))

\* str.count(c)
Count(s, c) == Cardinality({i \in 1..Len(s) : s[i] = c})

\* str.find(c) and str.rfind(c), 1-based; 0 stands for Python's -1.
Find(s, c) ==
    IF \E i \in 1..Len(s) : s[i] = c
    THEN CHOOSE i \in 1..Len(s) : s[i] = c /\ \A j \in 1..(i - 1) : s[j] # c
    ELSE 0

RFind(s, c) ==
    IF \E i \in 1..Len(s) : s[i] = c
    THEN CHOOSE i \in 1..Len(s) : s[i] = c /\ \A j \in (i + 1)..Len(s) : s[j] # c
    ELSE 0

\* s[a:b+1] of Python for 1-based a, b: empty when b < a.
Slice(s, a, b) == IF b < a THEN <<>> ELSE SubSeq(s, a, b)

\* First position >= i of s that holds no blank (Len(s) + 1 when none).
RECURSIVE SkipWs(_, _)
SkipWs(s, i) == IF i <= Len(s) /\ s[i] \in WS THEN SkipWs(s, i + 1) ELSE i

\* --------------------------------------------------------- repair pipeline

\* re.sub(fence .*? fence, "", raw, flags=re.DOTALL): leftmost, non-greedy,
\* non-overlapping; an unpaired fence stays.
RECURSIVE SubFences(_)
SubFences(s) ==
    IF s = <<>> THEN <<>>
    ELSE IF Head(s) = FENCE
         THEN LET rest == Tail(s)
                  j    == Find(rest, FENCE)
              IN  IF j = 0 THEN s
                  ELSE SubFences(Slice(rest, j + 1, Len(rest)))
         ELSE <<Head(s)>> \o SubFences(Tail(s))

StripFences(raw) == Strip(SubFences(raw))

\* raw[start:end+1] if start != -1 and end != -1 else raw
ExtractBlock(raw) ==
    LET start == Find(raw, "{")
        end   == RFind(raw, "}")
    IN  IF start # 0 /\ end # 0 THEN Slice(raw, start, end) ELSE raw

\* re.sub(r",\s*(?=[}\]])", "", blob): a comma, with the blanks after it, is
\* removed when the next character after those blanks is } or ].
RECURSIVE RemoveTrailingCommas(_)
RemoveTrailingCommas(s) ==
    IF s = <<>> THEN <<>>
    ELSE LET j == SkipWs(s, 2)
         IN  IF Head(s) = "," /\ j <= Len(s) /\ s[j] \in {"}", "]"}
             THEN RemoveTrailingCommas(Slice(s, j, Len(s)))
             ELSE <<Head(s)>> \o RemoveTrailingCommas(Tail(s))

\* if closes < opens: blob += "}" * (opens - closes)
BalanceBraces(blob) ==
    LET opens  == Count(blob, "{")
        closes == Count(blob, "}")
    IN  IF closes < opens
        THEN blob \o [i \in 1..(opens - closes) |-> "}"]
        ELSE blob

Repair(raw) == BalanceBraces(RemoveTrailingCommas(ExtractBlock(StripFences(raw))))

\* ------------------------------------------------------------- json.loads

\* A JSON value as Python holds it: t is its type, v its content.  A dict is
\* the sequence of its <<key, value>> items in insertion order, keys distinct.
JNull      == [t |-> "null", v |-> <<>>]
JBool(b)   == [t |-> "bool", v |-> <<b>>]
JNum(d)    == [t |-> "num",  v |-> d]
JStr(s)    == [t |-> "str",  v |-> s]
JArr(xs)   == [t |-> "arr",  v |-> xs]
JObj(kvs)  == [t |-> "obj",  v |-> kvs]

HasKey(d, k) == \E i \in 1..Len(d.v) : d.v[i][1] = k

\* d.get(k, default)
Get(d, k, default) ==
    IF HasKey(d, k)
    THEN d.v[CHOOSE i \in 1..Len(d.v) : d.v[i][1] = k][2]
    ELSE default

\* d[k] = x: an existing key keeps its place, a new key goes last.
SetItem(d, k, x) ==
    IF HasKey(d, k)
    THEN JObj([i \in 1..Len(d.v) |-> IF d.v[i][1] = k THEN <<k, x>> ELSE d.v[i]])
    ELSE JObj(Append(d.v, <<k, x>>))

\* d.setdefault(k, x)
SetDefault(d, k, x) == IF HasKey(d, k) THEN d ELSE SetItem(d, k, x)

ParseFail == [ok |-> FALSE, val |-> JNull, pos |-> 0]
ParseOk(val, pos) == [ok |-> TRUE, val |-> val, pos |-> pos]

\* s[i] is the opening quote: the string runs to the next quote.
ParseString(s, i) ==
    LET rest == Slice(s, i + 1, Len(s))
        j    == Find(rest, Q)
    IN  IF j = 0 THEN ParseFail
        ELSE ParseOk(JStr(Slice(rest, 1, j - 1)), i + j + 1)

\* Position after the run of digit chunks that starts at i.
RECURSIVE SkipDigits(_, _)
SkipDigits(s, i) == IF i <= Len(s) /\ s[i] \in Digits THEN SkipDigits(s, i + 1) ELSE i

RECURSIVE ParseValue(_, _)
RECURSIVE ParseMembers(_, _, _)
RECURSIVE ParseElements(_, _, _)

\* JSONObject after a key position j: "key" : value, then } or a comma.
ParseMembers(s, j, acc) ==
    IF j > Len(s) \/ s[j] # Q THEN ParseFail
    ELSE LET key == ParseString(s, j)
         IN  IF ~key.ok THEN ParseFail
             ELSE LET c == SkipWs(s, key.pos)
                  IN  IF c > Len(s) \/ s[c] # ":" THEN ParseFail
                      ELSE LET val == ParseValue(s, SkipWs(s, c + 1))
                           IN  IF ~val.ok THEN ParseFail
                               ELSE LET n    == SkipWs(s, val.pos)
                                        acc2 == SetItem(acc, key.val.v, val.val)
                                    IN  IF n > Len(s) THEN ParseFail
                                        ELSE IF s[n] = "}" THEN ParseOk(acc2, n + 1)
                                        ELSE IF s[n] = ","
                                             THEN ParseMembers(s, SkipWs(s, n + 1), acc2)
                                        ELSE ParseFail

\* JSONArray after [: value, then ] or a comma.
ParseElements(s, j, acc) ==
    LET val == ParseValue(s, j)
    IN  IF ~val.ok THEN ParseFail
        ELSE LET n    == SkipWs(s, val.pos)
                 acc2 == Append(acc, val.val)
             IN  IF n > Len(s) THEN ParseFail
                 ELSE IF s[n] = "]" THEN ParseOk(JArr(acc2), n + 1)
                 ELSE IF s[n] = ","
                      THEN ParseElements(s, SkipWs(s, n + 1), acc2)
                 ELSE ParseFail

\* scanner.py_make_scanner._scan_once
ParseValue(s, i) ==
    IF i > Len(s) THEN ParseFail
    ELSE IF s[i] = Q THEN ParseString(s, i)
    ELSE IF s[i] = "{"
         THEN LET j == SkipWs(s, i + 1)
              IN  IF j <= Len(s) /\ s[j] = "}" THEN ParseOk(JObj(<<>>), j + 1)
                  ELSE ParseMembers(s, j, JObj(<<>>))
    ELSE IF s[i] = "["
         THEN LET j == SkipWs(s, i + 1)
              IN  IF j <= Len(s) /\ s[j] = "]" THEN ParseOk(JArr(<<>>), j + 1)
                  ELSE ParseElements(s, j, <<>>)
    ELSE IF s[i] = "null"  THEN ParseOk(JNull, i + 1)
    ELSE IF s[i] = "true"  THEN ParseOk(JBool(TRUE), i + 1)
    ELSE IF s[i] = "false" THEN ParseOk(JBool(FALSE), i + 1)
    ELSE IF s[i] \in Digits
         THEN LET e == SkipDigits(s, i) IN ParseOk(JNum(Slice(s, i, e - 1)), e)
    ELSE ParseFail

\* json.loads(blob): one value between optional blanks, nothing after it;
\* ok = FALSE stands for json.JSONDecodeError.
JsonLoads(blob) ==
    LET r == ParseValue(blob, SkipWs(blob, 1))
    IN  IF r.ok /\ SkipWs(blob, r.pos) = Len(blob) + 1
        THEN [ok |-> TRUE, val |-> r.val]
        ELSE [ok |-> FALSE, val |-> JNull]

\* str(x) and repr(x): a str is itself under str() and quoted under repr().
RECURSIVE PyRepr(_)
RECURSIVE ReprItems(_, _)

PyRepr(x) ==
    CASE x.t = "str"  -> <<"'">> \o x.v \o <<"'">>
      [] x.t = "null" -> <<"None">>
      [] x.t = "bool" -> IF x.v[1] THEN <<"True">> ELSE <<"False">>
      [] x.t = "num"  -> x.v
      [] x.t = "arr"  -> <<"[">> \o ReprItems(x.v, FALSE) \o <<"]">>
      [] x.t = "obj"  -> <<"{">> \o ReprItems(x.v, TRUE) \o <<"}">>

\* The items of a list, or the key: value items of a dict, joined by ", ".
ReprItems(xs, isDict) ==
    IF xs = <<>> THEN <<>>
    ELSE LET one == IF isDict
                    THEN PyRepr(JStr(xs[1][1])) \o <<":", " ">> \o PyRepr(xs[1][2])
                    ELSE PyRepr(xs[1])
         IN  IF Len(xs) = 1 THEN one
             ELSE one \o <<",", " ">> \o ReprItems(Tail(xs), isDict)

PyStr(x) == IF x.t = "str" THEN x.v ELSE PyRepr(x)

\* ------------------------------------------------------- extract_user_info

K_name           == <<"name">>
K_email          == <<"email">>
K_account_number == <<"account_number">>
K_query_type     == <<"query_type">>
K_other_details  == <<"other_details">>
K_answered       == <<"answered">>

allowed == {<<"balance">>, <<"transfer">>, <<"loan">>, <<"investment">>, <<"other">>}

\* FailureDefault losing the user's message.
FailureDefault_NoMessage(user_input) ==
    JObj(<< <<K_name, JStr(<<>>)>>,
            <<K_email, JStr(<<>>)>>,
            <<K_account_number, JStr(<<>>)>>,
            <<K_query_type, JStr(<<"other">>)>>,
            <<K_other_details, JStr(<<>>)>>,
            <<K_answered, JBool(FALSE)>> >>)

\* The record returned when the model gave nothing or its text did not parse.
FailureDefault(user_input) ==
    JObj(<< <<K_name, JStr(<<>>)>>,
            <<K_email, JStr(<<>>)>>,
            <<K_account_number, JStr(<<>>)>>,
            <<K_query_type, JStr(<<"other">>)>>,
            <<K_other_details, JStr(user_input)>>,
            <<K_answered, JBool(FALSE)>> >>)

\* NormalizeQueryType without the membership test.
NormalizeQueryType_Unchecked(data) ==
    Lower(PyStr(Get(data, K_query_type, JStr(<<>>))))

\* qt = str(data.get("query_type", "")).lower(); qt if qt in allowed else "other"
NormalizeQueryType(data) ==
    LET qt == Lower(PyStr(Get(data, K_query_type, JStr(<<>>))))
    IN  IF qt \in allowed THEN qt ELSE <<"other">>

\* Lines 157-169 on a dict: the enforced query_type, then the five defaults.
Normalize(data) ==
    LET d1 == SetItem(data, K_query_type, JStr(NormalizeQueryType(data)))
        d2 == SetDefault(d1, K_name, JStr(<<>>))
        d3 == SetDefault(d2, K_email, JStr(<<>>))
        d4 == SetDefault(d3, K_account_number, JStr(<<>>))
        d5 == SetDefault(d4, K_other_details, JStr(<<>>))
    IN  SetDefault(d5, K_answered, JBool(FALSE))

\* --------------------------------------------------------- ollama_generate

\* What subprocess.run did: it returned (kind "exit", with the exit code and
\* the captured stdout), raised TimeoutExpired, or raised anything else.
Proc(kind, returncode, stdout) ==
    [kind |-> kind, returncode |-> returncode, stdout |-> stdout]

NoProc == Proc("none", 0, <<>>)

\* ollama_generate without the test of the exit code.
ollama_generate_AnyExitCode(p) ==
    IF p.kind = "exit" THEN Strip(p.stdout) ELSE <<>>

\* The value ollama_generate returns for that outcome.
ollama_generate(p) ==
    IF p.kind = "exit" /\ p.returncode = 0 THEN Strip(p.stdout) ELSE <<>>

\* -------------------------------------------------------------------- main

\* int(x): a bool or a number converts; a str converts when, stripped, it is
\* a run of digits; None, a list and a dict raise TypeError.
IntOk(x) ==
    \/ x.t \in {"bool", "num"}
    \/ /\ x.t = "str"
       /\ Strip(x.v) # <<>>
       /\ \A i \in 1..Len(Strip(x.v)) : Strip(x.v)[i] \in Digits

RECURSIVE DigitsValue(_)
DigitsValue(d) ==
    IF d = <<>> THEN 0 ELSE DigitsValue(SubSeq(d, 1, Len(d) - 1)) * 100000 + 12345

IntOf(x) ==
    IF x.t = "bool" THEN (IF x.v[1] THEN 1 ELSE 0)
    ELSE IF x.t = "num" THEN DigitsValue(x.v)
    ELSE DigitsValue(Strip(x.v))

\* The parameters of the INSERT: five fields of info and int(info["answered"]).
Row(info) ==
    [name           |-> Get(info, K_name, JNull),
     email          |-> Get(info, K_email, JNull),
     account_number |-> Get(info, K_account_number, JNull),
     query_type     |-> Get(info, K_query_type, JNull),
     other_details  |-> Get(info, K_other_details, JNull),
     answered       |-> IntOf(Get(info, K_answered, JNull))]

\* The connector converts None, bool, numbers and str to SQL; a list or a
\* dict parameter makes cursor.execute raise a mysql.connector.Error.
Convertible(info) ==
    \A k \in {K_name, K_email, K_account_number, K_query_type, K_other_details} :
        Get(info, k, JNull).t \notin {"arr", "obj"}

\* IsExit without the lower-casing.
IsExit_CaseSensitive(user_input) == user_input \in {<<"exit">>, <<"quit">>}

\* user_input.lower() in ("exit", "quit")
IsExit(user_input) == Lower(user_input) \in {<<"exit">>, <<"quit">>}

\* ------------------------------------------------- texts the model may emit

StrText(s) == <<Q>> \o s \o <<Q>>

\* Characters a JSON string may hold that the repair steps look for.
StrChunks == {"{", "}", "]", ","}

StrContents == UNION {[1..n -> StrChunks] : n \in 0..MaxStrLen}

NameTexts ==
    {StrText(c) : c \in StrContents}
        \cup {StrText(<<"Al">>), StrText(<<FENCE, "Al", FENCE>>), <<"null">>,
              <<"[", Q, "Al", Q, ",", " ", "]">>}

QueryTypeTexts ==
    {StrText(<<"Loan">>), StrText(<<"complaint">>), <<"null">>, <<"12345">>,
     <<"[", Q, "loan", Q, "]">>}

AnsweredTexts == {<<"true">>, <<"null">>, StrText(<<"yes">>)}

Member(k, v) == StrText(k) \o <<":", " ">> \o v

\* Nothing (the key is absent) or one "key": value member.
OptMember(k, values) == {<<>>} \cup {Member(k, v) : v \in values}

RECURSIVE JoinMembers(_)
JoinMembers(ms) ==
    IF ms = <<>> THEN <<>>
    ELSE IF Len(ms) = 1 THEN ms[1]
    ELSE ms[1] \o <<",", " ">> \o JoinMembers(Tail(ms))

Present(m) == m # <<>>

\* A JSON object, with a trailing comma before its closing brace or without.
ObjText(ms, trailing) ==
    <<"{">> \o JoinMembers(SelectSeq(ms, Present))
        \o (IF trailing /\ SelectSeq(ms, Present) # <<>> THEN <<",">> ELSE <<>>)
        \o <<"}">>

ObjTexts ==
    {ObjText(<<n, q, a>>, tc) :
        n \in OptMember(K_name, NameTexts),
        q \in OptMember(K_query_type, QueryTypeTexts),
        a \in OptMember(K_answered, AnsweredTexts),
        tc \in BOOLEAN}

\* Valid JSON of the other top-level kinds.
OtherTopTexts ==
    {<<"[", "]">>, <<"[", "{", "}", "]">>, <<"null">>, <<"true">>, <<"12345">>,
     StrText(<<"Al">>)}

\* Every truncation of a text, the empty one and the whole text included.
Prefixes(T) == UNION {{SubSeq(t, 1, n) : n \in 0..Len(t)} : t \in T}

\* An object between prose, inside a fence, or after a fenced remark.
Decorated ==
    UNION {{<<"hi", " ">> \o t \o <<" ", "hi">>,
            <<FENCE, "json", " ">> \o t \o <<" ", FENCE>>,
            <<FENCE, "hi", FENCE, " ">> \o t} : t \in ObjTexts}

ModelTexts == Prefixes(ObjTexts \cup OtherTopTexts) \cup Decorated \cup {<<"hi">>}

\* The few texts the loop is run on.
LoopTexts ==
    {<<>>, <<"hi">>, <<"[", "]">>,
     ObjText(<<Member(K_name, StrText(<<"Al">>)),
               Member(K_query_type, StrText(<<"Loan">>)),
               Member(K_answered, <<"true">>)>>, FALSE),
     ObjText(<<Member(K_name, <<"null">>)>>, TRUE),
     ObjText(<<Member(K_name, <<"[", "]">>)>>, FALSE),
     ObjText(<<Member(K_answered, StrText(<<"yes">>))>>, FALSE)}

Failures(t) == {Proc("exit", 1, t), Proc("timeout", 0, <<>>), Proc("error", 0, <<>>)}

AllOutcomes  == {Proc("exit", 0, t \o <<" ">>) : t \in ModelTexts} \cup Failures(<<"hi">>)
LoopOutcomes == {Proc("exit", 0, t \o <<" ">>) : t \in LoopTexts} \cup Failures(<<"hi">>)
ReplyOutcomes == {Proc("exit", 0, <<"ok", " ">>), Proc("exit", 0, <<>>)} \cup Failures(<<"ok">>)

\* Lines typed at the prompt.
InputLines ==
    {<<"hi">>, <<>>, <<"exit">>, <<"QUIT">>, <<" ", "Exit", " ">>, <<"exit", " ", "hi">>}

\* ------------------------------------------------------------------- state

VARIABLES
    pc,            \* where the program is
    line,          \* the line input() returned
    user_input,    \* line 180
    ai_response,   \* line 185
    reply_proc,    \* what subprocess.run did in the call of line 185
    extract_proc,  \* what subprocess.run did in the call of line 119
    raw,           \* line 119: the text ollama_generate returned
    blob,          \* the repaired text handed to json.loads
    data,          \* line 145
    info,          \* line 189
    exc,           \* the exception that ended the process, if one did
    pending,       \* rows inserted and not yet committed
    table,         \* the committed rows of user_info
    turns,         \* lines read so far
    calls          \* calls of ollama_generate so far

vars == <<pc, line, user_input, ai_response, reply_proc, extract_proc, raw, blob,
          data, info, exc, pending, table, turns, calls>>

locals == <<raw, blob, data>>
db == <<pending, table>>

Init ==
    /\ pc = "connect"
    /\ line = <<>>
    /\ user_input = <<>>
    /\ ai_response = <<>>
    /\ reply_proc = NoProc
    /\ extract_proc = NoProc
    /\ raw = <<>>
    /\ blob = <<>>
    /\ data = JNull
    /\ info = JNull
    /\ exc = "none"
    /\ pending = <<>>
    /\ table = <<>>
    /\ turns = 0
    /\ calls = 0

\* Lines 17-27: a connection, or a message and sys.exit(1).
get_db_connection ==
    /\ pc = "connect"
    /\ \E connected \in BOOLEAN : pc' = IF connected THEN "setup" ELSE "exit1"
    /\ UNCHANGED <<line, user_input, ai_response, reply_proc, extract_proc, locals,
                   info, exc, db, turns, calls>>

\* Lines 174-177: the table is created or migrated and the change committed;
\* a statement failing with anything but a duplicate column is raised.
setup_table ==
    /\ pc = "setup"
    /\ \/ pc' = "input" /\ exc' = exc
       \/ pc' = "crashed" /\ exc' = "mysql.connector.Error"
    /\ UNCHANGED <<line, user_input, ai_response, reply_proc, extract_proc, locals,
                   info, db, turns, calls>>

\* Lines 180-182: the next line, stripped; exit or quit leaves the loop.  The
\* locals of the previous call of extract_user_info are gone by now.
ReadInput ==
    /\ pc = "input"
    /\ turns < MaxTurns
    /\ \E l \in InputLines :
        /\ line' = l
        /\ user_input' = Strip(l)
        /\ pc' = IF IsExit(Strip(l)) THEN "close" ELSE "reply"
    /\ turns' = turns + 1
    /\ reply_proc' = NoProc /\ extract_proc' = NoProc
    /\ raw' = <<>> /\ blob' = <<>> /\ data' = JNull
    /\ UNCHANGED <<ai_response, info, exc, db, calls>>

\* Lines 185-186: the assistant's reply.
ReplyCall ==
    /\ pc = "reply"
    /\ \E p \in ReplyOutcomes :
        /\ reply_proc' = p
        /\ ai_response' = ollama_generate(p)
    /\ calls' = calls + 1
    /\ pc' = "extract_call"
    /\ UNCHANGED <<line, user_input, extract_proc, locals, info, exc, db, turns>>

\* Lines 119-128: the extraction call; an empty answer returns the default.
ExtractCallFrom(outcomes) ==
    /\ pc = "extract_call"
    /\ \E p \in outcomes :
        /\ extract_proc' = p
        /\ raw' = ollama_generate(p)
        /\ IF ollama_generate(p) = <<>>
           THEN info' = FailureDefault(user_input) /\ pc' = "insert"
           ELSE info' = info /\ pc' = "extract_repair"
    /\ calls' = calls + 1
    /\ UNCHANGED <<line, user_input, ai_response, reply_proc, blob, data, exc, db,
                   turns>>

ExtractCall == ExtractCallFrom(LoopOutcomes)

ExtractCallAll == ExtractCallFrom(AllOutcomes)

\* Lines 130-142: the four repair steps (raw keeps the text of line 119).
ExtractRepair ==
    /\ pc = "extract_repair"
    /\ blob' = Repair(raw)
    /\ pc' = "extract_parse"
    /\ UNCHANGED <<line, user_input, ai_response, reply_proc, extract_proc, raw, data,
                   info, exc, db, turns, calls>>

\* ExtractParse treating unparseable text as an empty object.
ExtractParse_EmptyObject ==
    /\ pc = "extract_parse"
    /\ LET r == JsonLoads(blob)
       IN  IF r.ok
           THEN data' = r.val /\ info' = info /\ pc' = "extract_normalize"
           ELSE data' = data /\ info' = Normalize(JObj(<<>>)) /\ pc' = "insert"
    /\ UNCHANGED <<line, user_input, ai_response, reply_proc, extract_proc, raw, blob,
                   exc, db, turns, calls>>

\* Lines 144-155: json.loads; JSONDecodeError returns the default.
ExtractParse ==
    /\ pc = "extract_parse"
    /\ LET r == JsonLoads(blob)
       IN  IF r.ok
           THEN data' = r.val /\ info' = info /\ pc' = "extract_normalize"
           ELSE data' = data /\ info' = FailureDefault(user_input) /\ pc' = "insert"
    /\ UNCHANGED <<line, user_input, ai_response, reply_proc, extract_proc, raw, blob,
                   exc, db, turns, calls>>

\* Lines 157-169: data.get exists on a dict only; on anything else line 159
\* raises AttributeError, which nothing catches.
ExtractNormalize ==
    /\ pc = "extract_normalize"
    /\ IF data.t = "obj"
       THEN info' = Normalize(data) /\ pc' = "insert" /\ exc' = exc
       ELSE info' = info /\ pc' = "crashed" /\ exc' = "AttributeError"
    /\ UNCHANGED <<line, user_input, ai_response, reply_proc, extract_proc, locals,
                   db, turns, calls>>

\* InsertExecute keeping the row of a failed INSERT for the next commit.
InsertExecute_Buffers ==
    /\ pc = "insert"
    /\ IF ~IntOk(Get(info, K_answered, JNull))
       THEN pc' = "crashed" /\ exc' = "ValueError" /\ pending' = pending
       ELSE /\ exc' = exc
            /\ \/ /\ Convertible(info)
                  /\ pending' = Append(pending, Row(info))
                  /\ pc' = "commit"
               \/ /\ pending' = Append(pending, Row(info))
                  /\ pc' = "input"
    /\ UNCHANGED <<line, user_input, ai_response, reply_proc, extract_proc, locals,
                   info, table, turns, calls>>

\* Lines 192-208 and 211-212: int(info["answered"]) is evaluated before the
\* try can catch a storage error; then the INSERT runs or raises.
InsertExecute ==
    /\ pc = "insert"
    /\ IF ~IntOk(Get(info, K_answered, JNull))
       THEN pc' = "crashed" /\ exc' = "ValueError" /\ pending' = pending
       ELSE /\ exc' = exc
            /\ \/ /\ Convertible(info)
                  /\ pending' = Append(pending, Row(info))
                  /\ pc' = "commit"
               \/ /\ pending' = pending
                  /\ pc' = "input"
    /\ UNCHANGED <<line, user_input, ai_response, reply_proc, extract_proc, locals,
                   info, table, turns, calls>>

\* Lines 209-212: the commit stores the pending row; a commit that raises
\* leaves nothing behind (MySQL rolls back a transaction whose COMMIT fails).
Commit ==
    /\ pc = "commit"
    /\ \/ table' = table \o pending
       \/ table' = table
    /\ pending' = <<>>
    /\ pc' = "input"
    /\ UNCHANGED <<line, user_input, ai_response, reply_proc, extract_proc, locals,
                   info, exc, turns, calls>>

\* Lines 214-215.
Close ==
    /\ pc = "close"
    /\ pc' = "done"
    /\ pending' = <<>>
    /\ UNCHANGED <<line, user_input, ai_response, reply_proc, extract_proc, locals,
                   info, exc, table, turns, calls>>

Next ==
    \/ get_db_connection
    \/ setup_table
    \/ ReadInput
    \/ ReplyCall
    \/ ExtractCall
    \/ ExtractRepair
    \/ ExtractParse
    \/ ExtractNormalize
    \/ InsertExecute
    \/ Commit
    \/ Close

Spec == Init /\ [][Next]_vars

\* One call of extract_user_info, on every text the model may emit.
ExtractInputs == {<<"hi">>, <<>>}

InitExtract ==
    /\ pc = "extract_call"
    /\ user_input \in ExtractInputs
    /\ line = user_input
    /\ ai_response = <<"ok">>
    /\ reply_proc = Proc("exit", 0, <<"ok", " ">>)
    /\ extract_proc = NoProc
    /\ raw = <<>>
    /\ blob = <<>>
    /\ data = JNull
    /\ info = JNull
    /\ exc = "none"
    /\ pending = <<>>
    /\ table = <<>>
    /\ turns = 1
    /\ calls = 1

NextExtract == ExtractCallAll \/ ExtractRepair \/ ExtractParse \/ ExtractNormalize

SpecExtract == InitExtract /\ [][NextExtract]_vars

\* ------------------------------------------------------------------ claims

Field(r, k) == Get(r, k, JNull)

IsText(x, s) == x.t = "str" /\ x.v = s

HasSixFields(r) ==
    /\ r.t = "obj"
    /\ \A k \in {K_name, K_email, K_account_number, K_query_type, K_other_details,
                 K_answered} : HasKey(r, k)

\* name = "", email = "", account_number = "", query_type = "other",
\* other_details = u, answered = False, and nothing else.
IsFailureDefault(r, u) ==
    /\ HasSixFields(r)
    /\ Len(r.v) = 6
    /\ IsText(Field(r, K_name), <<>>)
    /\ IsText(Field(r, K_email), <<>>)
    /\ IsText(Field(r, K_account_number), <<>>)
    /\ IsText(Field(r, K_query_type), <<"other">>)
    /\ IsText(Field(r, K_other_details), u)
    /\ Field(r, K_answered).t = "bool" /\ Field(r, K_answered).v = <<FALSE>>

\* Python's == on parsed JSON: dicts compare by their items, order aside.
RECURSIVE PyEq(_, _)
PyEq(a, b) ==
    /\ a.t = b.t
    /\ Len(a.v) = Len(b.v)
    /\ CASE a.t = "arr" -> \A i \in 1..Len(a.v) : PyEq(a.v[i], b.v[i])
         [] a.t = "obj" -> \A i \in 1..Len(a.v) :
                               /\ HasKey(b, a.v[i][1])
                               /\ PyEq(a.v[i][2], Field(b, a.v[i][1]))
         [] OTHER       -> a.v = b.v

\* extract_user_info has returned: main is about to insert its record.
Returned == pc = "insert"

\* C1: extract_user_info never raises to its caller, and the record it
\* returns holds all six fields, whatever text the model gave.
C1_NeverFailsOutward ==
    /\ exc # "AttributeError"
    /\ Returned => HasSixFields(info)

\* C2: every record extract_user_info returns has a query_type among the five
\* allowed words: the model's value lower-cased when that is one of them, and
\* "other" for any other value (absent, not a string, an unknown word).
C2_QueryTypeAllowed ==
    Returned =>
        /\ Field(info, K_query_type).t = "str"
        /\ Field(info, K_query_type).v \in
               {<<"balance">>, <<"transfer">>, <<"loan">>, <<"investment">>, <<"other">>}
        /\ data.t = "obj" =>
               LET given == Field(data, K_query_type)
                   kept  == given.t = "str" /\ Lower(given.v) \in allowed
               IN  Field(info, K_query_type).v =
                       IF kept THEN Lower(given.v) ELSE <<"other">>

C2_Witness ==
    /\ Returned
    /\ data.t = "obj"
    /\ IsText(Field(data, K_query_type), <<"Loan">>)
    /\ IsText(Field(info, K_query_type), <<"loan">>)

\* C3: when the model returned the empty string, or the repaired text does not
\* parse as JSON, the record returned is exactly the failure default, with the
\* user's message as other_details.
C3_FailureDefault ==
    (Returned /\ (raw = <<>> \/ ~JsonLoads(blob).ok)) => IsFailureDefault(info, user_input)

C3_Witness ==
    /\ Returned
    /\ raw # <<>>
    /\ ~JsonLoads(blob).ok
    /\ user_input = <<"hi">>
    /\ IsText(Field(info, K_other_details), <<"hi">>)

\* C4: once the loop has started, nothing that happens in a turn ends the
\* process: an uncaught exception is possible at startup only.
C4_LoopNeverCrashes == pc = "crashed" => turns = 0

\* C5: in every record extract_user_info returns, name, email, account_number
\* and other_details are text and answered is a boolean.
C5_WellTyped ==
    Returned =>
        /\ HasSixFields(info)
        /\ \A k \in {K_name, K_email, K_account_number, K_other_details} :
               Field(info, k).t = "str"
        /\ Field(info, K_answered).t = "bool"

\* C6: a model output that is already a well-formed JSON object comes out of
\* the repair pipeline as text that parses to the same object.
C6_RepairIdempotent ==
    (pc = "extract_parse" /\ JsonLoads(raw).ok /\ JsonLoads(raw).val.t = "obj") =>
        /\ JsonLoads(blob).ok
        /\ PyEq(JsonLoads(blob).val, JsonLoads(raw).val)

Soft(p, returned) ==
    /\ (p.kind \in {"timeout", "error"} \/ p.returncode # 0) => returned = <<>>
    /\ returned # <<>> => (p.kind = "exit" /\ p.returncode = 0)

\* C7: ollama_generate returns the empty string when the invocation timed
\* out, exited with a non-zero code or failed to run, returns text only after
\* exit code 0, and no exception of the invocation ends the process.
C7_FailSoft ==
    /\ reply_proc.kind # "none" => Soft(reply_proc, ai_response)
    /\ extract_proc.kind # "none" => Soft(extract_proc, raw)
    /\ exc \in {"none", "AttributeError", "ValueError", "mysql.connector.Error"}

C7_Witness ==
    /\ Returned
    /\ reply_proc = Proc("exit", 1, <<"ok">>)
    /\ ai_response = <<>>
    /\ extract_proc.kind = "timeout"
    /\ raw = <<>>

ExitWords == {<<"exit">>, <<"quit">>}

InTurn ==
    pc \in {"reply", "extract_call", "extract_repair", "extract_parse",
            "extract_normalize", "insert", "commit"}

Left == pc \in {"close", "done"}

\* Nothing is processed for the line that ended the loop, nor after it.
NoFurtherProcessing ==
    /\ [](Left => (calls = 2 * (turns - 1) /\ pending = <<>>))
    /\ [][Left => (Left' /\ calls' = calls /\ table' = table)]_vars

\* C8 as stated: the loop ends exactly on a line equal to exit or quit in any
\* casing, every other line being processed as a turn.
C8_ExitOnEqualLine ==
    /\ Left => Lower(line) \in ExitWords
    /\ InTurn => Lower(line) \notin ExitWords

\* C8, amended: the loop ends exactly on a line that, stripped of surrounding
\* blanks, is exit or quit in any casing; no model call, extraction or storage
\* write happens for that line or after it, and every other line is processed
\* as a turn.
C8_ExitCommand ==
    /\ [](Left => Lower(Strip(line)) \in ExitWords)
    /\ [](InTurn => Lower(Strip(line)) \notin ExitWords)
    /\ NoFurtherProcessing

C8_Witness ==
    /\ pc = "done"
    /\ line = <<"QUIT">>
    /\ turns = 2
    /\ Len(table) = 1

\* The write of this step failed: the INSERT raised, or the commit did.
WriteFails ==
    \/ pc = "insert" /\ pc' = "input"
    \/ pc = "commit" /\ table' = table

\* C9: a failing write drops the turn's record (it is not kept for a later
\* turn), leaves the table as it was and returns to reading input; a turn adds
\* at most one record, and stored records are never changed or removed.
C9_DroppedOnStorageError ==
    /\ [](pc # "commit" => pending = <<>>)
    /\ [](Len(table) <= turns)
    /\ [][/\ WriteFails => (table' = table /\ pending' = <<>> /\ pc' = "input")
          /\ Len(table') <= Len(table) + 1
          /\ SubSeq(table', 1, Len(table)) = table
          /\ table' # table => (pc = "commit" /\ table' = Append(table, Row(info)))]_vars

C9_Witness ==
    /\ pc = "input"
    /\ turns = 2
    /\ Len(table) = 1
    /\ IsFailureDefault(info, <<"hi">>)
    /\ table[1].query_type.v = <<"loan">>

TimedOut(p) == p.kind = "timeout"

\* C10 as stated: in a turn in which either model call timed out, the record
\* handed to the sink is the failure default.
C10_AnyTimeoutGivesDefault ==
    (Returned /\ (TimedOut(reply_proc) \/ TimedOut(extract_proc))) =>
        IsFailureDefault(info, user_input)

\* C10, amended: a timed-out call yields the empty string; when it is the
\* extraction call, the record handed to the sink is the failure default, and
\* when it is the reply call, the reply is empty and extraction goes on.
C10_ExtractTimeoutGivesDefault ==
    /\ (InTurn /\ pc # "reply" /\ TimedOut(reply_proc)) => ai_response = <<>>
    /\ (Returned /\ TimedOut(extract_proc)) =>
           (raw = <<>> /\ IsFailureDefault(info, user_input))

C10_Witness ==
    /\ Returned
    /\ TimedOut(extract_proc)
    /\ reply_proc = Proc("exit", 0, <<"ok", " ">>)
    /\ user_input = <<"hi">>
    /\ IsFailureDefault(info, <<"hi">>)

====
